---- MODULE Spec2Model ----
(***************************************************************************)
(* State-machine model of the ThreeScene component (three-scene.ts): the   *)
(* animation mixer with its play-once clips and 'finished' listeners, the  *)
(* character controller, the basketball physics and the key handlers.      *)
(*                                                                         *)
(* Units: lengths in centimetres, velocities in centimetres per second,    *)
(* times in milliseconds, angles as multiples of 45 degrees (yaw) or of 90 *)
(* degrees (camera orbit).  Fractions are per mille.  Arithmetic is        *)
(* fixed-point, truncating toward zero.                                    *)
(***************************************************************************)
EXTENDS Integers, Sequences, FiniteSets, TLC

VARIABLES
  loaded,          \* which of avatar / basketball / basketballCourt exist
  collisionBoxes,  \* this.collisionBoxes with this.collisionObjectNames
  currentAction,   \* this.currentAction: clip name, "none" for null
  clipTime,        \* AnimationAction.time of the two LoopOnce actions
  clipRunning,     \* LoopOnce action is playing (enabled and not paused)
  listeners,       \* the mixer's 'finished' listeners, in registration order
  currentState,    \* this.currentState
  hasBall, isCrouched, isTransitioning, isThrowingBall, ballWasThrown,
  avatarPos,       \* avatar.position <<x, y, z>>
  avatarYaw,       \* avatar.rotation.y, in eighths of a turn
  ballPos,         \* basketball.position <<x, y, z>>
  ballVel,         \* basketballVelocity <<x, y, z>>
  keys,            \* the keys of this.keys that are held and are read
  cameraAngle,     \* this.cameraAngle, in quarter turns
  pc,              \* position inside animate(): "frame", "move" or "ball"
  delta,           \* the delta of the running animate() call
  finished,        \* clips whose 'finished' event the last mixer.update sent
  fired,           \* listeners invoked by the last mixer.update, in order
  releases         \* throwBasketball() calls since the last accepted throw

vars == <<loaded, collisionBoxes, currentAction, clipTime, clipRunning,
          listeners, currentState, hasBall, isCrouched, isTransitioning,
          isThrowingBall, ballWasThrown, avatarPos, avatarYaw, ballPos,
          ballVel, keys, cameraAngle, pc, delta, finished, fired, releases>>

----------------------------------------------------------------------------
(* Bounds of the model *)

\* frame deltas (ms) handed out by clock.getDelta() while a play-once clip
\* runs: a regular frame and a long frame
Deltas == {100, 500}

\* frame deltas outside the play-once clips: regular frames
SteadyDeltas == {100}

\* the avatar is kept within 0 .. ArenaMax on the x axis
ArenaMax == 240

\* at most this many 'finished' listeners are ever registered
MaxListeners == 4

\* keys pressed in the pickup / throw game
GameKeys == {"d", "shift", "e", "r"}

----------------------------------------------------------------------------
(* Program constants *)

moveSpeed == 200
sprintSpeed == 400
gravity == -981
bounceReduction == 700
groundY == -150
basketballRadius == 12
pickupDistance == 150
characterRadius == 20
throwForce == 800
throwLift == 600
bounceStrength == 800
energyKeep == 900
groundFriction == 800
bounceThreshold == 10
residualVelocity == 10

\* animationStates
idle == "idle"
forward == "wlking"
backward == "walkingbackward"
running == "running"
holdingball == "holdingball"
standingtocrouched == "standingtocrouched"
throwball == "throwball"

AnimationStates ==
  {idle, forward, backward, running, holdingball, standingtocrouched, throwball}

\* the two clips set to LoopOnce with clampWhenFinished
OnceClips == {standingtocrouched, throwball}

\* clip.duration of the LoopOnce clips (ms), read from the model file
ClipDuration(c) == IF c = standingtocrouched THEN 300 ELSE 500

\* the meshes named Object_7 of the court, as world boxes: the hall that
\* encloses the court
CourtBoxes ==
  << [name |-> "Object_7", min |-> <<-200, -210, -150>>, max |-> <<678, 1000, 150>>] >>

BallRest == <<300, -120, 0>>
AvatarStart == <<0, -150, 0>>
Zero3 == <<0, 0, 0>>

----------------------------------------------------------------------------
(* Fixed-point helpers: THREE.Vector3 arithmetic and Math functions *)

Abs(a) == IF a < 0 THEN -a ELSE a

\* a * n / d, truncated toward zero
MulDiv(a, n, d) == IF a * n >= 0 THEN (a * n) \div d ELSE -((-(a * n)) \div d)

\* Vector3.lengthSq()
LengthSq(v) == v[1] * v[1] + v[2] * v[2] + v[3] * v[3]

\* Vector3.distanceTo(), squared
DistanceSq(a, b) == LengthSq(<<a[1] - b[1], a[2] - b[2], a[3] - b[3]>>)

Add3(a, b) == <<a[1] + b[1], a[2] + b[2], a[3] + b[3]>>

\* Math.sin / Math.cos of a yaw given in eighths of a turn, per mille
SinYaw(y) == <<0, 707, 1000, 707, 0, -707, -1000, -707>>[(y % 8) + 1]
CosYaw(y) == SinYaw(y + 2)

\* Math.sin / Math.cos of the camera angle given in quarter turns
SinCam(c) == <<0, 1, 0, -1>>[(c % 4) + 1]
CosCam(c) == SinCam(c + 1)

\* Math.atan2(x, z) for a direction with components in -1 .. 1, in eighths
Atan2Yaw(x, z) ==
  CASE x = 0 /\ z > 0 -> 0
    [] x > 0 /\ z > 0 -> 1
    [] x > 0 /\ z = 0 -> 2
    [] x > 0 /\ z < 0 -> 3
    [] x = 0 /\ z < 0 -> 4
    [] x < 0 /\ z < 0 -> 5
    [] x < 0 /\ z = 0 -> 6
    [] x < 0 /\ z > 0 -> 7
    [] OTHER -> 0

\* Vector3.applyAxisAngle((0,1,0), yaw)
ApplyYaw(v, y) ==
  << MulDiv(v[1], CosYaw(y), 1000) + MulDiv(v[3], SinYaw(y), 1000),
     v[2],
     MulDiv(v[3], CosYaw(y), 1000) - MulDiv(v[1], SinYaw(y), 1000) >>

\* Math.sin(x * PI / 2) for x in 0 .. 1000 per mille (Bhaskara's rational form)
SinHalfPi(x) ==
  LET q == x * (2000 - x)
  IN  (4 * q) \div ((5000000 - q) \div 1000)

\* Math.pow(u, 0.3) for u in 0 .. 1000 per mille, interpolated between deciles
Pow03(u) ==
  LET T == <<0, 501, 617, 697, 760, 812, 858, 899, 935, 969, 1000>>
      i == u \div 100
      r == u % 100
  IN  IF i >= 10 THEN 1000 ELSE T[i + 1] + ((T[i + 2] - T[i + 1]) * r) \div 100

----------------------------------------------------------------------------
(* The component as a record: every operator below maps `this` to `this` *)

This ==
  [ loaded |-> loaded, collisionBoxes |-> collisionBoxes,
    currentAction |-> currentAction, clipTime |-> clipTime,
    clipRunning |-> clipRunning, listeners |-> listeners,
    currentState |-> currentState, hasBall |-> hasBall,
    isCrouched |-> isCrouched, isTransitioning |-> isTransitioning,
    isThrowingBall |-> isThrowingBall, ballWasThrown |-> ballWasThrown,
    avatarPos |-> avatarPos, avatarYaw |-> avatarYaw, ballPos |-> ballPos,
    ballVel |-> ballVel, keys |-> keys, cameraAngle |-> cameraAngle,
    finished |-> finished, fired |-> fired, releases |-> releases ]

Commit(s) ==
  /\ loaded' = s.loaded
  /\ collisionBoxes' = s.collisionBoxes
  /\ currentAction' = s.currentAction
  /\ clipTime' = s.clipTime
  /\ clipRunning' = s.clipRunning
  /\ listeners' = s.listeners
  /\ currentState' = s.currentState
  /\ hasBall' = s.hasBall
  /\ isCrouched' = s.isCrouched
  /\ isTransitioning' = s.isTransitioning
  /\ isThrowingBall' = s.isThrowingBall
  /\ ballWasThrown' = s.ballWasThrown
  /\ avatarPos' = s.avatarPos
  /\ avatarYaw' = s.avatarYaw
  /\ ballPos' = s.ballPos
  /\ ballVel' = s.ballVel
  /\ keys' = s.keys
  /\ cameraAngle' = s.cameraAngle
  /\ finished' = s.finished
  /\ fired' = s.fired
  /\ releases' = s.releases

----------------------------------------------------------------------------
(* Ball in hand and release *)

\* basketball / avatar / basketballCourt objects exist once their loader ran
HasAvatar(s) == "avatar" \in s.loaded
HasBasketball(s) == "basketball" \in s.loaded

\* throwBasketball(): overwrite the velocity with the throw impulse
ThrowBasketball(s) ==
  IF ~HasBasketball(s) \/ ~HasAvatar(s) THEN s
  ELSE [s EXCEPT
          !.ballVel = << MulDiv(throwForce, SinYaw(s.avatarYaw), 1000),
                         throwLift,
                         MulDiv(throwForce, CosYaw(s.avatarYaw), 1000) >>,
          !.ballWasThrown = TRUE,
          !.releases = @ + 1]

\* currentAction.time of the current action; only LoopOnce clips keep a time
\* that is read (looping clips are never asked for their progress)
ActionTime(s) ==
  IF s.currentAction \in OnceClips THEN s.clipTime[s.currentAction] ELSE 0

ActionDuration(s) ==
  IF s.currentAction \in OnceClips THEN ClipDuration(s.currentAction) ELSE 1000

\* Math.min(animationTime / animationDuration, 1), per mille
Progress(s) ==
  LET p == (ActionTime(s) * 1000) \div ActionDuration(s)
  IN  IF p > 1000 THEN 1000 ELSE p

\* the rest hand offset, new THREE.Vector3(0, 1, 0.4)
RestHandOffset == <<0, 100, 40>>

\* the hand offset of the three held phases of the throw, by progress
ThrowHandOffset(p) ==
  IF p <= 300
  THEN LET downCurve == SinHalfPi((p * 10) \div 3)
       IN  << 0, 100 - MulDiv(downCurve, 20, 1000), 40 - MulDiv(downCurve, 10, 1000) >>
  ELSE IF p <= 550
  THEN LET upCurve == Pow03((p - 300) * 4)
       IN  << 0, 100 - 20 + MulDiv(upCurve, 90, 1000),
              40 - 10 + MulDiv(upCurve, 15, 1000) >>
  ELSE LET throwProgress == (p - 550) * 4
       IN  << 0, 100 + 70, 40 + 5 - MulDiv(throwProgress, 30, 1000) >>

\* the last lines of updateBasketballInHand(): put the ball at the hand
FollowHand(s, handOffset) ==
  [s EXCEPT !.ballPos = Add3(s.avatarPos, ApplyYaw(handOffset, s.avatarYaw))]

\* a release that forgets to clear hasBall
ReleaseBallStillHeld(s) == ThrowBasketball(s)

\* the release branch: hasBall = false, then throwBasketball()
ReleaseBall(s) == ThrowBasketball([s EXCEPT !.hasBall = FALSE])

\* updateBasketballInHand()
UpdateBasketballInHand(s) ==
  IF ~HasBasketball(s) \/ ~HasAvatar(s) \/ ~s.hasBall THEN s
  ELSE IF s.ballWasThrown THEN [s EXCEPT !.hasBall = FALSE]
  ELSE IF ~s.isThrowingBall /\ LengthSq(s.ballVel) > residualVelocity * residualVelocity
  THEN s
  ELSE IF s.isThrowingBall /\ s.currentAction # "none"
  THEN IF Progress(s) <= 600
       THEN FollowHand(s, ThrowHandOffset(Progress(s)))
       ELSE ReleaseBall(s)
  ELSE FollowHand(s, RestHandOffset)

\* attachBasketballToHand()
AttachBasketballToHand(s) ==
  IF ~HasBasketball(s) \/ ~HasAvatar(s) THEN s ELSE UpdateBasketballInHand(s)

----------------------------------------------------------------------------
(* Animation: playAnimation, the 'finished' listeners, mixer.update *)

\* this.actions[state] exists once the avatar's clips are loaded
HasAction(s, state) == HasAvatar(s)

\* currentAction.reset().fadeIn(0.3).play(): a LoopOnce clip restarts at 0
ResetAction(s, state) ==
  IF state \in OnceClips
  THEN [s EXCEPT !.currentAction = state,
                 !.clipTime = [@ EXCEPT ![state] = 0],
                 !.clipRunning = [@ EXCEPT ![state] = TRUE]]
  ELSE [s EXCEPT !.currentAction = state]

\* playAnimation(state); each call registers a fresh bound listener
PlayAnimation(s, state) ==
  IF ~HasAction(s, state) THEN s
  ELSE LET s1 == ResetAction(s, state)
       IN  IF state = standingtocrouched
           THEN [s1 EXCEPT !.isTransitioning = TRUE,
                           !.listeners = Append(@, "onCrouchFinished")]
           ELSE IF state = throwball
           THEN [s1 EXCEPT !.isTransitioning = TRUE,
                           !.isThrowingBall = TRUE,
                           !.listeners = Append(@, "onThrowFinished")]
           ELSE s1

\* mixer.removeEventListener('finished', handler.bind(this)): the argument is
\* a new function object, which is not in the listener array
RemoveEventListener(s, handler) == s

\* onCrouchFinished that leaves isTransitioning set
OnCrouchFinishedStaysLocked(s) ==
  LET s1 == [s EXCEPT !.fired = Append(@, "onCrouchFinished"),
                      !.isCrouched = TRUE, !.hasBall = TRUE, !.ballWasThrown = FALSE]
      s2 == PlayAnimation(AttachBasketballToHand(s1), holdingball)
  IN  [s2 EXCEPT !.currentState = holdingball]

\* onCrouchFinished that keeps the ballWasThrown flag of the last throw
OnCrouchFinishedKeepsThrown(s) ==
  LET s1 == [s EXCEPT !.fired = Append(@, "onCrouchFinished"),
                      !.isCrouched = TRUE, !.hasBall = TRUE, !.isTransitioning = FALSE]
      s2 == PlayAnimation(AttachBasketballToHand(s1), holdingball)
  IN  [s2 EXCEPT !.currentState = holdingball]

\* onCrouchFinished()
OnCrouchFinished(s) ==
  LET s0 == RemoveEventListener([s EXCEPT !.fired = Append(@, "onCrouchFinished")],
                                "onCrouchFinished")
      s1 == [s0 EXCEPT !.isCrouched = TRUE, !.hasBall = TRUE,
                       !.isTransitioning = FALSE, !.ballWasThrown = FALSE]
      s2 == PlayAnimation(AttachBasketballToHand(s1), holdingball)
  IN  [s2 EXCEPT !.currentState = holdingball]

\* onThrowFinished that leaves isCrouched as it finds it
OnThrowFinishedStaysCrouched(s) ==
  LET s1 == [s EXCEPT !.fired = Append(@, "onThrowFinished"),
                      !.isTransitioning = FALSE, !.isThrowingBall = FALSE,
                      !.hasBall = FALSE]
      s2 == PlayAnimation(s1, idle)
  IN  [s2 EXCEPT !.currentState = idle]

\* onThrowFinished()
OnThrowFinished(s) ==
  LET s0 == RemoveEventListener([s EXCEPT !.fired = Append(@, "onThrowFinished")],
                                "onThrowFinished")
      s1 == [s0 EXCEPT !.isCrouched = FALSE, !.isTransitioning = FALSE,
                       !.isThrowingBall = FALSE, !.hasBall = FALSE]
      s2 == PlayAnimation(s1, idle)
  IN  [s2 EXCEPT !.currentState = idle]

\* EventDispatcher.dispatchEvent: call a copy of the listener array in order
RECURSIVE DispatchEvent(_, _)
DispatchEvent(s, array) ==
  IF array = <<>> THEN s
  ELSE DispatchEvent(
         IF Head(array) = "onCrouchFinished" THEN OnCrouchFinished(s)
         ELSE OnThrowFinished(s),
         Tail(array))

\* a mixer that loops the two clips instead of playing them once
UpdateActionLoops(s, c, dt) ==
  IF ~s.clipRunning[c] THEN s
  ELSE [s EXCEPT !.clipTime = [@ EXCEPT ![c] = (@ + dt) % ClipDuration(c)]]

\* a mixer that records the end of a clip and leaves the delivery of the
\* 'finished' event for later
UpdateActionDeferred(s, c, dt) ==
  IF ~s.clipRunning[c] THEN s
  ELSE IF s.clipTime[c] + dt >= ClipDuration(c)
  THEN [s EXCEPT !.clipTime = [@ EXCEPT ![c] = ClipDuration(c)],
                 !.clipRunning = [@ EXCEPT ![c] = FALSE],
                 !.finished = Append(@, c)]
  ELSE [s EXCEPT !.clipTime = [@ EXCEPT ![c] = @ + dt]]

\* AnimationAction._updateTime for a LoopOnce, clampWhenFinished action
UpdateAction(s, c, dt) ==
  IF ~s.clipRunning[c] THEN s
  ELSE IF s.clipTime[c] + dt >= ClipDuration(c)
  THEN LET s1 == [s EXCEPT !.clipTime = [@ EXCEPT ![c] = ClipDuration(c)],
                           !.clipRunning = [@ EXCEPT ![c] = FALSE],
                           !.finished = Append(@, c)]
       IN  DispatchEvent(s1, s1.listeners)
  ELSE [s EXCEPT !.clipTime = [@ EXCEPT ![c] = @ + dt]]

\* if (this.mixer) this.mixer.update(delta)
MixerUpdate(s, dt) ==
  LET s0 == [s EXCEPT !.finished = <<>>, !.fired = <<>>]
  IN  IF ~HasAvatar(s) THEN s0
      ELSE UpdateAction(UpdateAction(s0, standingtocrouched, dt), throwball, dt)

----------------------------------------------------------------------------
(* Collision world *)

\* Box3.containsPoint
ContainsPoint(mn, mx, c) ==
  \A i \in 1..3 : mn[i] <= c[i] /\ c[i] <= mx[i]

\* Box3.expandByScalar
ExpandMin(b, r) == <<b.min[1] - r, b.min[2] - r, b.min[3] - r>>
ExpandMax(b, r) == <<b.max[1] + r, b.max[2] + r, b.max[3] + r>>

\* the surface test both collision queries make on one box
SurfaceHit(b, c, r) ==
  /\ ContainsPoint(ExpandMin(b, r), ExpandMax(b, r), c)
  /\ ~ContainsPoint(b.min, b.max, c)

\* checkCollision(newPosition)
CheckCollision(s, newPosition) ==
  \E i \in 1..Len(s.collisionBoxes) :
    SurfaceHit(s.collisionBoxes[i], Add3(newPosition, <<0, 50, 0>>), characterRadius)

Min2(a, b) == IF a <= b THEN a ELSE b

\* a face classification that gives a tie to the later axis
HitFaceTiesLast(b, c) ==
  LET emin == ExpandMin(b, basketballRadius)
      emax == ExpandMax(b, basketballRadius)
      penetrationX == Min2(c[1] - emin[1], emax[1] - c[1])
      penetrationY == Min2(c[2] - emin[2], emax[2] - c[2])
      penetrationZ == Min2(c[3] - emin[3], emax[3] - c[3])
  IN  IF penetrationX < penetrationY /\ penetrationX < penetrationZ
      THEN IF 2 * c[1] < b.min[1] + b.max[1] THEN "left" ELSE "right"
      ELSE IF penetrationY < penetrationZ
      THEN IF 2 * c[2] < b.min[2] + b.max[2] THEN "bottom" ELSE "top"
      ELSE IF 2 * c[3] < b.min[3] + b.max[3] THEN "back" ELSE "front"

\* the face classification of checkBasketballCollision for one box
HitFace(b, c) ==
  LET emin == ExpandMin(b, basketballRadius)
      emax == ExpandMax(b, basketballRadius)
      penetrationX == Min2(c[1] - emin[1], emax[1] - c[1])
      penetrationY == Min2(c[2] - emin[2], emax[2] - c[2])
      penetrationZ == Min2(c[3] - emin[3], emax[3] - c[3])
  IN  IF penetrationX <= penetrationY /\ penetrationX <= penetrationZ
      THEN IF 2 * c[1] < b.min[1] + b.max[1] THEN "left" ELSE "right"
      ELSE IF penetrationY <= penetrationZ
      THEN IF 2 * c[2] < b.min[2] + b.max[2] THEN "bottom" ELSE "top"
      ELSE IF 2 * c[3] < b.min[3] + b.max[3] THEN "back" ELSE "front"

\* a box reports a hit: surface contact on a face the box allows
BoxReports(b, c) ==
  /\ SurfaceHit(b, c, basketballRadius)
  /\ (b.name = "Object_28" => HitFace(b, c) \in {"front", "back"})

\* checkBasketballCollision(newPosition): the face of the first reporting
\* box, "none" for { hasCollision: false }
CheckBasketballCollision(s, newPosition) ==
  LET hits == {i \in 1..Len(s.collisionBoxes) : BoxReports(s.collisionBoxes[i], newPosition)}
  IN  IF hits = {} THEN "none"
      ELSE HitFace(s.collisionBoxes[CHOOSE i \in hits : \A j \in hits : i <= j],
                   newPosition)

----------------------------------------------------------------------------
(* Ball physics *)

\* the safety reset that keeps the ballWasThrown flag
SafetyResetKeepsThrown(s) ==
  [s EXCEPT !.ballPos = BallRest, !.ballVel = Zero3, !.hasBall = FALSE,
            !.isThrowingBall = FALSE]

\* the two safety resets of updateBasketballPhysics
SafetyReset(s) ==
  [s EXCEPT !.ballPos = BallRest, !.ballVel = Zero3, !.hasBall = FALSE,
            !.isThrowingBall = FALSE, !.ballWasThrown = FALSE]

OutOfWorld(s) ==
  \/ s.ballPos[2] < -1000
  \/ LengthSq(s.ballPos) > 5000 * 5000

\* a bounce that reflects the component instead of forcing its direction
BounceVelocityReflects(v, face) ==
  LET b == CASE face \in {"top", "bottom"} ->
                  <<v[1], -MulDiv(v[2], bounceStrength, 1000), v[3]>>
             [] face \in {"left", "right"} ->
                  <<-MulDiv(v[1], bounceStrength, 1000), v[2], v[3]>>
             [] face \in {"front", "back"} ->
                  <<v[1], v[2], -MulDiv(v[3], bounceStrength, 1000)>>
             [] OTHER -> v
  IN  << MulDiv(b[1], energyKeep, 1000), MulDiv(b[2], energyKeep, 1000),
         MulDiv(b[3], energyKeep, 1000) >>

\* a bounce without the overall energy loss
BounceVelocityKeepsEnergy(v, face) ==
  CASE face = "top"    -> <<v[1], -MulDiv(Abs(v[2]), bounceStrength, 1000), v[3]>>
    [] face = "bottom" -> <<v[1], MulDiv(Abs(v[2]), bounceStrength, 1000), v[3]>>
    [] face = "left"   -> <<MulDiv(Abs(v[1]), bounceStrength, 1000), v[2], v[3]>>
    [] face = "right"  -> <<-MulDiv(Abs(v[1]), bounceStrength, 1000), v[2], v[3]>>
    [] face = "front"  -> <<v[1], v[2], -MulDiv(Abs(v[3]), bounceStrength, 1000)>>
    [] face = "back"   -> <<v[1], v[2], MulDiv(Abs(v[3]), bounceStrength, 1000)>>
    [] OTHER -> v

\* the bounce on a face hit, then the overall energy loss
BounceVelocity(v, face) ==
  LET b == CASE face = "top"    -> <<v[1], -MulDiv(Abs(v[2]), bounceStrength, 1000), v[3]>>
             [] face = "bottom" -> <<v[1], MulDiv(Abs(v[2]), bounceStrength, 1000), v[3]>>
             [] face = "left"   -> <<MulDiv(Abs(v[1]), bounceStrength, 1000), v[2], v[3]>>
             [] face = "right"  -> <<-MulDiv(Abs(v[1]), bounceStrength, 1000), v[2], v[3]>>
             [] face = "front"  -> <<v[1], v[2], -MulDiv(Abs(v[3]), bounceStrength, 1000)>>
             [] face = "back"   -> <<v[1], v[2], MulDiv(Abs(v[3]), bounceStrength, 1000)>>
             [] OTHER -> v
  IN  << MulDiv(b[1], energyKeep, 1000), MulDiv(b[2], energyKeep, 1000),
         MulDiv(b[3], energyKeep, 1000) >>

\* a ground block that leaves the horizontal velocity alone
GroundContactNoFriction(s) ==
  IF s.ballPos[2] <= groundY + basketballRadius
  THEN [s EXCEPT
          !.ballPos = <<s.ballPos[1], groundY + basketballRadius, s.ballPos[3]>>,
          !.ballVel = << s.ballVel[1],
                         IF Abs(s.ballVel[2]) > bounceThreshold
                         THEN MulDiv(-s.ballVel[2], bounceReduction, 1000)
                         ELSE 0,
                         s.ballVel[3] >>]
  ELSE s

\* a ground block that bounces the ball and leaves it where it is
GroundContactNoClamp(s) ==
  IF s.ballPos[2] <= groundY + basketballRadius
  THEN [s EXCEPT
          !.ballVel = << MulDiv(s.ballVel[1], groundFriction, 1000),
                         IF Abs(s.ballVel[2]) > bounceThreshold
                         THEN MulDiv(-s.ballVel[2], bounceReduction, 1000)
                         ELSE 0,
                         MulDiv(s.ballVel[3], groundFriction, 1000) >>]
  ELSE s

\* the ground collision block
GroundContact(s) ==
  IF s.ballPos[2] <= groundY + basketballRadius
  THEN [s EXCEPT
          !.ballPos = <<s.ballPos[1], groundY + basketballRadius, s.ballPos[3]>>,
          !.ballVel = << MulDiv(s.ballVel[1], groundFriction, 1000),
                         IF Abs(s.ballVel[2]) > bounceThreshold
                         THEN MulDiv(-s.ballVel[2], bounceReduction, 1000)
                         ELSE 0,
                         MulDiv(s.ballVel[3], groundFriction, 1000) >>]
  ELSE s

\* a free flight that, on a face hit, still advances the ball along the two
\* axes that are not blocked
FreeFlightSlides(s, dt) ==
  LET v1 == <<s.ballVel[1], s.ballVel[2] + MulDiv(gravity, dt, 1000), s.ballVel[3]>>
      newPosition == Add3(s.ballPos, << MulDiv(v1[1], dt, 1000), MulDiv(v1[2], dt, 1000),
                                       MulDiv(v1[3], dt, 1000) >>)
      face == CheckBasketballCollision(s, newPosition)
      blocked == IF face \in {"left", "right"} THEN 1
                 ELSE IF face \in {"bottom", "top"} THEN 2 ELSE 3
  IN  GroundContact(
        IF face # "none"
        THEN [s EXCEPT !.ballVel = BounceVelocity(v1, face),
                       !.ballPos = [i \in 1..3 |->
                                      IF i = blocked THEN s.ballPos[i] ELSE newPosition[i]]]
        ELSE [s EXCEPT !.ballVel = v1, !.ballPos = newPosition])

\* gravity, candidate position, court collision, ground collision
FreeFlight(s, dt) ==
  LET v1 == <<s.ballVel[1], s.ballVel[2] + MulDiv(gravity, dt, 1000), s.ballVel[3]>>
      newPosition == Add3(s.ballPos, << MulDiv(v1[1], dt, 1000), MulDiv(v1[2], dt, 1000),
                                       MulDiv(v1[3], dt, 1000) >>)
      face == CheckBasketballCollision(s, newPosition)
  IN  GroundContact(
        IF face # "none"
        THEN [s EXCEPT !.ballVel = BounceVelocity(v1, face)]
        ELSE [s EXCEPT !.ballVel = v1, !.ballPos = newPosition])

\* updateBasketballPhysics(delta)
UpdateBasketballPhysics(s, dt) ==
  IF ~HasBasketball(s) THEN s
  ELSE IF s.hasBall THEN UpdateBasketballInHand(s)
  ELSE IF OutOfWorld(s) THEN SafetyReset(s)
  ELSE FreeFlight(s, dt)

\* canPickupBall()
CanPickupBall(s) ==
  /\ HasBasketball(s) /\ HasAvatar(s) /\ ~s.hasBall
  /\ DistanceSq(s.avatarPos, s.ballPos) <= pickupDistance * pickupDistance

----------------------------------------------------------------------------
(* Character controller *)

\* a key block that selects the walking states also while the ball is held
KeyStateIgnoresBall(s, prev, key) ==
  IF key \notin s.keys THEN prev
  ELSE IF key = "s" THEN backward
  ELSE IF "shift" \in s.keys THEN running
  ELSE forward

\* the animation state chosen by the four key blocks, in source order
KeyState(s, prev, key) ==
  IF key \notin s.keys THEN prev
  ELSE IF s.hasBall THEN holdingball
  ELSE IF key = "s" THEN backward
  ELSE IF "shift" \in s.keys THEN running
  ELSE forward

SelectedState(s) ==
  LET n0 == IF s.hasBall THEN holdingball ELSE idle
  IN  KeyState(s, KeyState(s, KeyState(s, KeyState(s, n0, "z"), "s"), "q"), "d")

Held(s, key) == IF key \in s.keys THEN 1 ELSE 0

\* moveDir before normalisation: forward (z), backward (s), left (q), right (d)
\* relative to the camera; <<x, z>> with components in -1 .. 1
MoveDir(s) ==
  LET fwd == Held(s, "z") - Held(s, "s")
      rgt == Held(s, "d") - Held(s, "q")
  IN  << rgt * CosCam(s.cameraAngle) - fwd * SinCam(s.cameraAngle),
         -fwd * CosCam(s.cameraAngle) - rgt * SinCam(s.cameraAngle) >>

\* moveDir.normalize().multiplyScalar(currentSpeed * delta), one component
MoveStep(s, comp, diagonal, dt) ==
  LET unit == IF diagonal THEN 707 ELSE 1000
      currentSpeed == IF "shift" \in s.keys THEN sprintSpeed ELSE moveSpeed
  IN  MulDiv(comp * unit * currentSpeed, dt, 1000000)

\* the branch of handleMovement that sets the animation state
SwitchState(s, newState) ==
  IF newState # s.currentState
  THEN [PlayAnimation(s, newState) EXCEPT !.currentState = newState]
  ELSE s

\* a movement step that turns the character only when it can move
MoveAndSelectBlockedKeepsYaw(s, dt) ==
  LET dir == MoveDir(s)
      diagonal == dir[1] # 0 /\ dir[2] # 0
      newPosition == Add3(s.avatarPos, << MoveStep(s, dir[1], diagonal, dt), 0,
                                          MoveStep(s, dir[2], diagonal, dt) >>)
  IN  IF dir # <<0, 0>>
      THEN SwitchState(
             IF CheckCollision(s, newPosition) THEN s
             ELSE [s EXCEPT !.avatarPos = newPosition,
                            !.avatarYaw = Atan2Yaw(dir[1], dir[2])],
             SelectedState(s))
      ELSE SwitchState(s, IF s.hasBall THEN holdingball ELSE idle)

\* handleMovement(delta) past its first line: move, turn, select the state
MoveAndSelect(s, dt) ==
  LET dir == MoveDir(s)
      diagonal == dir[1] # 0 /\ dir[2] # 0
      newPosition == Add3(s.avatarPos, << MoveStep(s, dir[1], diagonal, dt), 0,
                                          MoveStep(s, dir[2], diagonal, dt) >>)
  IN  IF dir # <<0, 0>>
      THEN SwitchState(
             [s EXCEPT !.avatarPos = IF CheckCollision(s, newPosition)
                                     THEN s.avatarPos ELSE newPosition,
                       !.avatarYaw = Atan2Yaw(dir[1], dir[2])],
             SelectedState(s))
      ELSE SwitchState(s, IF s.hasBall THEN holdingball ELSE idle)

\* handleMovement without the transition lock of its first line
HandleMovementNoLock(s, dt) ==
  IF ~HasAvatar(s) THEN s ELSE MoveAndSelect(s, dt)

\* handleMovement that does not test for the avatar
HandleMovementNoAvatarTest(s, dt) ==
  IF s.isTransitioning THEN s ELSE MoveAndSelect(s, dt)

\* handleMovement(delta)
HandleMovement(s, dt) ==
  IF ~HasAvatar(s) \/ s.isTransitioning THEN s ELSE MoveAndSelect(s, dt)

----------------------------------------------------------------------------
(* Key handlers and loaders *)

\* the entries of this.keys that the simulation reads
ReadKeys == {"z", "s", "q", "d", "shift"}

\* a pickup guard that forgets the transition lock
PickupAcceptedInTransition(s) == ~s.hasBall /\ CanPickupBall(s)

PickupAccepted(s) == ~s.hasBall /\ ~s.isTransitioning /\ CanPickupBall(s)
\* a throw guard that forgets the transition lock
ThrowAcceptedInTransition(s) == s.hasBall

ThrowAccepted(s) == s.hasBall /\ ~s.isTransitioning

\* the pickup branch of onKeyDown
StartPickup(s) ==
  [PlayAnimation([s EXCEPT !.ballVel = Zero3], standingtocrouched)
     EXCEPT !.currentState = standingtocrouched]

\* the throw branch of onKeyDown
StartThrow(s) ==
  [PlayAnimation([s EXCEPT !.releases = 0], throwball)
     EXCEPT !.currentState = throwball]

\* onKeyDown(event)
OnKeyDown(s, key) ==
  LET s1 == IF key \in ReadKeys THEN [s EXCEPT !.keys = @ \cup {key}] ELSE s
  IN  IF key = "e" /\ PickupAccepted(s1) THEN StartPickup(s1)
      ELSE IF key = "r" /\ ThrowAccepted(s1) THEN StartThrow(s1)
      ELSE s1

\* onKeyUp(event)
OnKeyUp(s, key) == [s EXCEPT !.keys = @ \ {key}]

\* the onLoad callback of loadGLBModel
AvatarLoaded(s) ==
  PlayAnimation([s EXCEPT !.loaded = @ \cup {"avatar"}, !.avatarPos = AvatarStart], idle)

\* the onLoad callback of loadBasketball
BasketballLoaded(s) ==
  [s EXCEPT !.loaded = @ \cup {"basketball"}, !.ballPos = BallRest]

\* the onLoad callback of loadBasketballCourt, with createCourtCollisions
CourtLoaded(s) ==
  [s EXCEPT !.loaded = @ \cup {"court"}, !.collisionBoxes = CourtBoxes]

----------------------------------------------------------------------------
(* The state machine *)

Init ==
  /\ loaded = {}
  /\ collisionBoxes = <<>>
  /\ currentAction = "none"
  /\ clipTime = [c \in OnceClips |-> 0]
  /\ clipRunning = [c \in OnceClips |-> FALSE]
  /\ listeners = <<>>
  /\ currentState = idle
  /\ hasBall = FALSE
  /\ isCrouched = FALSE
  /\ isTransitioning = FALSE
  /\ isThrowingBall = FALSE
  /\ ballWasThrown = FALSE
  /\ avatarPos = AvatarStart
  /\ avatarYaw = 0
  /\ ballPos = BallRest
  /\ ballVel = Zero3
  /\ keys = {}
  /\ cameraAngle = 0
  /\ pc = "frame"
  /\ delta = 0
  /\ finished = <<>>
  /\ fired = <<>>
  /\ releases = 0

\* the modelled region of the court
InArena(p) == 0 <= p[1] /\ p[1] <= ArenaMax /\ Abs(p[3]) <= ArenaMax

\* the deltas the next frame may have
FrameDeltas ==
  IF \E c \in OnceClips : clipRunning[c] THEN Deltas ELSE SteadyDeltas

\* animate(), first phase: clock.getDelta() and mixer.update(delta)
AnimateMixer ==
  /\ pc = "frame"
  /\ \E dt \in FrameDeltas :
       LET s1 == MixerUpdate(This, dt)
       IN  /\ InArena(HandleMovement(s1, dt).avatarPos)
           /\ Commit(s1)
           /\ delta' = dt
  /\ pc' = "move"

\* animate(), second phase: handleMovement(delta)
AnimateMovement ==
  /\ pc = "move"
  /\ Commit(HandleMovement(This, delta))
  /\ pc' = "ball"
  /\ UNCHANGED delta

\* animate(), third phase: updateBasketballPhysics(delta)
AnimatePhysics ==
  /\ pc = "ball"
  /\ Commit(UpdateBasketballPhysics(This, delta))
  /\ pc' = "frame"
  /\ delta' = 0

\* a keydown event between two frames
KeyDown ==
  /\ pc = "frame"
  /\ \E key \in GameKeys :
       /\ key \in {"e", "r"} => Len(listeners) < MaxListeners
       /\ Commit(OnKeyDown(This, key))
  /\ UNCHANGED <<pc, delta>>

\* a keyup event between two frames
KeyUp ==
  /\ pc = "frame"
  /\ \E key \in keys : Commit(OnKeyUp(This, key))
  /\ UNCHANGED <<pc, delta>>

\* the three asset loaders complete between two frames, in any order
LoadAvatar ==
  /\ pc = "frame" /\ "avatar" \notin loaded
  /\ Commit(AvatarLoaded(This))
  /\ UNCHANGED <<pc, delta>>

LoadBasketball ==
  /\ pc = "frame" /\ "basketball" \notin loaded
  /\ Commit(BasketballLoaded(This))
  /\ UNCHANGED <<pc, delta>>

LoadCourt ==
  /\ pc = "frame" /\ "court" \notin loaded
  /\ Commit(CourtLoaded(This))
  /\ UNCHANGED <<pc, delta>>

Next ==
  \/ AnimateMixer
  \/ AnimateMovement
  \/ AnimatePhysics
  \/ KeyDown
  \/ KeyUp
  \/ LoadAvatar
  \/ LoadBasketball
  \/ LoadCourt

Spec == Init /\ [][Next]_vars

----------------------------------------------------------------------------
(* Properties *)

\* the last mixer.update dispatched the 'finished' event of clip c
Finished(c) == \E i \in 1..Len(finished) : finished[i] = c

\* a play-once clip is the current action and has not reached its end
OnceClipActive == currentAction \in OnceClips /\ clipRunning[currentAction]

\* C1: once the throw clip has completed, the ball has been released exactly
\* once since the throw was accepted (never zero times, never twice).
C1_ReleasedExactlyOnce == Finished(throwball) => releases = 1

\* C2: when a play-once clip completes, only handlers registered for that
\* clip run: a completed throw runs no crouch handler and a completed
\* crouch-down runs no throw handler.
C2_OnlyOwnHandlerRuns ==
  \A i \in 1..Len(fired) :
    /\ Finished(throwball) => fired[i] = "onThrowFinished"
    /\ Finished(standingtocrouched) => fired[i] = "onCrouchFinished"

\* C3: each completed play of a play-once clip invokes one completion handler,
\* after which none remains registered, and at most one handler is pending at
\* any moment.
C3_FiresOnceThenCleared ==
  /\ Len(listeners) <= 1
  /\ (pc = "move" /\ finished # <<>>) => (Len(fired) = 1 /\ listeners = <<>>)

\* C4: a character phase that starts with isTransitioning set leaves the
\* character's position, yaw and selected animation state unchanged, whatever
\* keys are held.
C4_LockedDuringTransition ==
  [][(pc = "move" /\ isTransitioning) =>
       (avatarPos' = avatarPos /\ avatarYaw' = avatarYaw /\
        currentState' = currentState /\ currentAction' = currentAction)]_vars

\* the character phase has just run in a transition with movement keys held
C4_Witness ==
  pc = "ball" /\ isTransitioning /\ "d" \in keys /\ "shift" \in keys

\* C5: between frames, isTransitioning is true exactly when the active
\* animation is a play-once clip that has not completed.
C5_TransitioningIffOnceClipActive ==
  pc = "frame" => (isTransitioning <=> OnceClipActive)

\* a later crouch-down is under way with stale listeners still registered
C5_Witness ==
  /\ pc = "frame" /\ isTransitioning /\ currentAction = standingtocrouched
  /\ clipTime[standingtocrouched] > 0 /\ Len(listeners) = 3

\* C6 as stated: a ball phase that starts with hasBall and isThrowingBall
\* both set is the release tick, so it never ends with both still set.
C6_BothOnlyInReleaseTick ==
  [][(pc = "ball" /\ hasBall /\ isThrowingBall) =>
       ~(hasBall' /\ isThrowingBall')]_vars

\* C6 as amended: hasBall and isThrowingBall are both set only while the
\* throw clip runs and the ball has not been released, which between frames
\* means a throw progress of at most 0.6; otherwise they exclude each other.
C6_BothOnlyWhileBallHeldInThrow ==
  (hasBall /\ isThrowingBall) =>
    /\ isTransitioning /\ currentAction = throwball /\ clipRunning[throwball]
    /\ ~ballWasThrown /\ releases = 0
    /\ pc = "frame" => 10 * clipTime[throwball] <= 6 * ClipDuration(throwball)

\* both flags are still set after a whole frame of the throw
C6_Witness ==
  /\ pc = "frame" /\ hasBall /\ isThrowingBall
  /\ clipTime[throwball] = 300

\* the keydown event of one key, as a step
KeyDownOf(key) == Commit(OnKeyDown(This, key)) /\ UNCHANGED <<pc, delta>>

\* C7: a pickup key event is accepted exactly when hasBall and isTransitioning
\* are false and the ball is within pickupDistance (inclusive); accepted, it
\* zeroes the ball velocity, sets isTransitioning, makes crouch-down the
\* active animation and leaves hasBall false; rejected, it changes nothing.
C7_PickupAcceptance ==
  [][(pc = "frame" /\ "avatar" \in loaded /\ "basketball" \in loaded
        /\ KeyDownOf("e")) =>
       IF ~hasBall /\ ~isTransitioning
          /\ DistanceSq(avatarPos, ballPos) <= pickupDistance * pickupDistance
       THEN /\ ballVel' = Zero3 /\ isTransitioning' /\ ~hasBall'
            /\ currentAction' = standingtocrouched
            /\ currentState' = standingtocrouched
            /\ clipRunning'[standingtocrouched] /\ clipTime'[standingtocrouched] = 0
            /\ ballPos' = ballPos
       ELSE UNCHANGED vars]_vars

\* a pickup has just been accepted for a ball that was moving
C7_Witness ==
  /\ pc = "frame" /\ currentState = standingtocrouched /\ isTransitioning
  /\ clipTime[standingtocrouched] = 0 /\ ballVel = Zero3 /\ ~hasBall
  /\ ballPos[2] > groundY + basketballRadius

\* C8: hasBall stays false while the crouch-down clip runs, and the tick in
\* which that clip completes ends with isCrouched, hasBall, not
\* isTransitioning, not ballWasThrown and holding-ball selected, for the first
\* and for every later pickup.
C8_PickupCompletes ==
  /\ []((currentAction = standingtocrouched /\ clipRunning[standingtocrouched])
          => ~hasBall)
  /\ [][(pc = "ball" /\ Finished(standingtocrouched)) =>
          (isCrouched' /\ hasBall' /\ ~isTransitioning' /\ ~ballWasThrown'
           /\ currentState' = holdingball /\ currentAction' = holdingball)]_vars

\* a second pickup has completed, stale listeners included
C8_Witness ==
  /\ pc = "frame" /\ Finished(standingtocrouched) /\ hasBall
  /\ fired = <<"onCrouchFinished", "onThrowFinished", "onCrouchFinished">>

\* C9: from the completion of a pickup until a throw starts, the ball sits at
\* the character position plus the rest hand offset rotated by the yaw.
C9_BallAttachedWhileHeld ==
  (pc = "frame" /\ hasBall /\ ~isThrowingBall) =>
    ballPos = Add3(avatarPos, ApplyYaw(RestHandOffset, avatarYaw))

\* the flags and handlers a throw key event starts with
ThrowStarted ==
  /\ isTransitioning' /\ isThrowingBall'
  /\ currentAction' = throwball /\ currentState' = throwball
  /\ clipRunning'[throwball] /\ clipTime'[throwball] = 0

\* the throw part of C10: accepted only with hasBall and not isTransitioning
ThrowAcceptance ==
  (pc = "frame" /\ KeyDownOf("r")) =>
    IF hasBall /\ ~isTransitioning THEN ThrowStarted ELSE UNCHANGED vars

AllThrowFlagsCleared ==
  ~isCrouched' /\ ~isThrowingBall' /\ ~isTransitioning' /\ ~hasBall'

\* C10 as stated: a throw is accepted only with hasBall and not
\* isTransitioning, and the tick in which the throw clip completes ends with
\* the four flags false and idle as the animation state.
C10_ThrowEndsIdle ==
  [][/\ ThrowAcceptance
     /\ (pc = "ball" /\ Finished(throwball)) =>
          (AllThrowFlagsCleared /\ currentState' = idle)]_vars

\* C10 as amended: the four flags are false and idle is selected when the
\* completion handlers return; the tick ends with the four flags false, and
\* with idle selected unless a movement direction is held, in which case the
\* character phase of that tick has selected the walking or running state.
C10_ThrowEndsUnlocked ==
  [][/\ ThrowAcceptance
     /\ (pc = "frame" /\ pc' = "move" /\ Finished(throwball)') =>
          (AllThrowFlagsCleared /\ currentState' = idle /\ currentAction' = idle)
     /\ (pc = "ball" /\ Finished(throwball)) =>
          /\ AllThrowFlagsCleared
          /\ IF MoveDir(This) = <<0, 0>> THEN currentState' = idle
             ELSE currentState' \in {forward, backward, running}]_vars

\* a throw has completed with a direction key held: the tick ends walking
C10_Witness ==
  pc = "frame" /\ Finished(throwball) /\ currentState = forward /\ ~hasBall

\* the throw impulse for the current yaw: (8 sin yaw, 6, 8 cos yaw)
ThrowImpulse ==
  << MulDiv(throwForce, SinYaw(avatarYaw), 1000), throwLift,
     MulDiv(throwForce, CosYaw(avatarYaw), 1000) >>

\* C11: during a throw a ball-physics tick with progress <= 0.6 keeps the
\* ball held at the animated hand position; the first ball-physics tick with
\* progress > 0.6 releases it (hasBall false, ballWasThrown true, velocity
\* overwritten with the throw impulse, position untouched); and the release
\* happens in such a ball-physics tick, before the throw clip completes.
C11_ReleasedPastSixTenths ==
  [][/\ (pc = "ball" /\ hasBall /\ isThrowingBall /\ Progress(This) <= 600) =>
          /\ hasBall' /\ ~ballWasThrown'
          /\ ballPos' = Add3(avatarPos,
                             ApplyYaw(ThrowHandOffset(Progress(This)), avatarYaw))
     /\ (pc = "ball" /\ hasBall /\ isThrowingBall /\ Progress(This) > 600) =>
          /\ ~hasBall' /\ ballWasThrown'
          /\ ballVel' = ThrowImpulse /\ ballPos' = ballPos
     /\ (releases' > releases) =>
          (pc = "ball" /\ hasBall /\ clipRunning[throwball])]_vars

----------------------------------------------------------------------------
(* Carrying the ball away from the origin: the court has not finished       *)
(* loading (collisionBoxes is empty), so nothing stops the character.  A   *)
(* stretch of walking with the ball in hand is taken as one long frame.    *)

\* the character may carry the ball this far along the x axis
FarMax == 5200

\* the frame delta (ms) that stands for a long stretch of carrying
CarryDelta == 2500

\* frame deltas (ms) while a play-once clip runs: a short and a regular frame
ClipDeltas == {50, 100}

FarDeltas ==
  IF \E c \in OnceClips : clipRunning[c] THEN ClipDeltas
  ELSE IF hasBall THEN SteadyDeltas \cup {CarryDelta}
  ELSE SteadyDeltas

\* regular frames keep the character near the start; a long stretch of
\* carrying takes it anywhere within FarMax
InRange(s, dt) ==
  \/ s.avatarPos = avatarPos
  \/ /\ s.avatarPos[3] = 0 /\ 0 <= s.avatarPos[1]
     /\ s.avatarPos[1] <= (IF dt = CarryDelta THEN FarMax ELSE ArenaMax)

\* animate(), first phase, under the frame deltas of a long carry
AnimateMixerFar ==
  /\ pc = "frame"
  /\ \E dt \in FarDeltas :
       LET s1 == MixerUpdate(This, dt)
       IN  /\ InRange(HandleMovement(s1, dt), dt)
           /\ Commit(s1)
           /\ delta' = dt
  /\ pc' = "move"

NextFar ==
  \/ AnimateMixerFar
  \/ AnimateMovement
  \/ AnimatePhysics
  \/ KeyDown
  \/ KeyUp
  \/ LoadAvatar
  \/ LoadBasketball

SpecFar == Init /\ [][NextFar]_vars

\* a ball-physics tick that finds a free ball outside the safety region
ResetTriggered == pc = "ball" /\ HasBasketball(This) /\ ~hasBall /\ OutOfWorld(This)

\* C20: the safety reset is never triggered by runs of movement, sprint,
\* pickup and throw key events, also when the ball is carried far away.
C20_SafetyResetNeverTriggered == ~ResetTriggered


\* the ball is outside the safety region: y < -10 or distance > 50
BallOutside == ballPos[2] < -1000 \/ LengthSq(ballPos) > 5000 * 5000

\* what a safety reset leaves behind
ResetDone ==
  /\ ballPos' = BallRest /\ ballVel' = Zero3
  /\ ~hasBall' /\ ~isThrowingBall' /\ ~ballWasThrown'

PickupCompletes == pc = "frame" /\ pc' = "move" /\ Finished(standingtocrouched)'

\* C12: from the release of a thrown ball until the next pickup completes,
\* the ball position changes only in ball-physics ticks, by free-flight
\* integration with ground clamping or by the safety reset; no completion
\* callback and no tick puts the ball at the hand.
C12_NoHandFollowingAfterRelease ==
  [][(releases > 0 /\ ~hasBall /\ ~PickupCompletes /\ ballPos' # ballPos) =>
       /\ pc = "ball"
       /\ ballPos' \in {FreeFlight(This, delta).ballPos, BallRest}]_vars


\* what a rejected ability request must leave alone
AbilityStateUnchanged ==
  UNCHANGED <<hasBall, isCrouched, isTransitioning, isThrowingBall,
              ballWasThrown, currentAction, currentState, clipTime,
              clipRunning, listeners, ballPos, ballVel>>

\* C13: a pickup key event while hasBall or isTransitioning is true, and a
\* throw key event while isTransitioning is true or hasBall is false, leave
\* the character flags, the active animation, the registered completion
\* handlers and the ball position and velocity unchanged.
C13_RejectedRequestsAreNoOps ==
  [][/\ (pc = "frame" /\ KeyDownOf("e") /\ (hasBall \/ isTransitioning)) =>
          AbilityStateUnchanged
     /\ (pc = "frame" /\ KeyDownOf("r") /\ (isTransitioning \/ ~hasBall)) =>
          AbilityStateUnchanged]_vars

\* the ball is held in a running throw (progress <= 0.6)
\* and key events are still delivered: both requests are rejected
C13_Witness ==
  /\ pc = "frame" /\ hasBall /\ isTransitioning /\ currentAction = throwball
  /\ clipTime[throwball] > 0 /\ Len(listeners) < MaxListeners

----------------------------------------------------------------------------
(* The free ball next to a court box: the physics tick as a function of    *)
(* the ball position and velocity, drawn from a grid around one box.       *)

\* a court box hanging above the floor
LabBoxes ==
  << [name |-> "Object_7", min |-> <<-40, -100, -40>>, max |-> <<40, -40, 40>>] >>

\* ball positions around and inside the box, and on the ground
LabXs == {-60, -46, 0, 46, 60}
LabYs == {-138, -106, -70, -34, 0}
LabZs == {-46, 0, 46}

\* ball velocities (cm/s)
LabSpeeds == {-100, 0, 100}
LabLifts == {-100, 98, 300}

InitLab ==
  /\ loaded = {"avatar", "basketball", "court"}
  /\ collisionBoxes = LabBoxes
  /\ currentAction = idle
  /\ clipTime = [c \in OnceClips |-> 0]
  /\ clipRunning = [c \in OnceClips |-> FALSE]
  /\ listeners = <<>>
  /\ currentState = idle
  /\ hasBall = FALSE
  /\ isCrouched = FALSE
  /\ isTransitioning = FALSE
  /\ isThrowingBall = FALSE
  /\ ballWasThrown = FALSE
  /\ avatarPos = AvatarStart
  /\ avatarYaw = 0
  /\ ballPos \in LabXs \X LabYs \X LabZs
  /\ ballVel \in LabSpeeds \X LabLifts \X LabSpeeds
  /\ keys = {}
  /\ cameraAngle = 0
  /\ pc = "frame"
  /\ delta = 0
  /\ finished = <<>>
  /\ fired = <<>>
  /\ releases = 0

NextLab ==
  \/ AnimateMixer
  \/ AnimateMovement
  \/ AnimatePhysics

SpecLab == InitLab /\ [][NextLab]_vars


\* the velocity after gravity and the candidate position of the running tick
GravityVelocity ==
  <<ballVel[1], ballVel[2] + MulDiv(gravity, delta, 1000), ballVel[3]>>

Candidate ==
  Add3(ballPos, << MulDiv(GravityVelocity[1], delta, 1000),
                   MulDiv(GravityVelocity[2], delta, 1000),
                   MulDiv(GravityVelocity[3], delta, 1000) >>)

\* a free-flight tick is about to run
FreeTick == pc = "ball" /\ HasBasketball(This) /\ ~hasBall /\ ~OutOfWorld(This)

\* penetration of center c on axis a into box b expanded by the ball radius
Penetration(b, c, a) ==
  Min2(c[a] - (b.min[a] - basketballRadius), (b.max[a] + basketballRadius) - c[a])

\* the first axis, X before Y before Z, with the smallest penetration
SmallestAxis(b, c) ==
  CHOOSE a \in 1..3 :
    /\ \A k \in 1..3 : Penetration(b, c, a) <= Penetration(b, c, k)
    /\ \A k \in 1..(a - 1) : Penetration(b, c, k) > Penetration(b, c, a)

FaceNames == << <<"left", "right">>, <<"bottom", "top">>, <<"back", "front">> >>

\* the face the contact is classified as: the side of the box center
ExpectedFace(b, c) ==
  LET a == SmallestAxis(b, c)
  IN  IF 2 * c[a] < b.min[a] + b.max[a] THEN FaceNames[a][1] ELSE FaceNames[a][2]

\* in the box expanded by the ball radius, and not in the box itself
InShell(b, c) ==
  /\ \A a \in 1..3 : b.min[a] - basketballRadius <= c[a]
                     /\ c[a] <= b.max[a] + basketballRadius
  /\ \E a \in 1..3 : c[a] < b.min[a] \/ c[a] > b.max[a]

\* C14: the ball collision query reports a hit on a box exactly when the
\* candidate center is inside the box expanded by the ball radius and not
\* inside the box itself; the face is on the axis of smallest penetration,
\* ties X before Y before Z, its side given by the sign of center - boxCenter.
C14_QueryClassifiesByPenetration ==
  FreeTick =>
    LET hit == {i \in 1..Len(collisionBoxes) : InShell(collisionBoxes[i], Candidate)}
    IN  /\ \A i \in 1..Len(collisionBoxes) :
             BoxReports(collisionBoxes[i], Candidate) <=> i \in hit
        /\ CheckBasketballCollision(This, Candidate) =
             IF hit = {} THEN "none"
             ELSE ExpectedFace(collisionBoxes[CHOOSE i \in hit : \A j \in hit : i <= j],
                               Candidate)

\* a contact at an edge of the box, where the X and Z penetrations tie
C14_Witness ==
  /\ FreeTick /\ collisionBoxes # <<>>
  /\ InShell(collisionBoxes[1], Candidate)
  /\ Penetration(collisionBoxes[1], Candidate, 1) = Penetration(collisionBoxes[1], Candidate, 3)
  /\ Penetration(collisionBoxes[1], Candidate, 1) < Penetration(collisionBoxes[1], Candidate, 2)
  /\ CheckBasketballCollision(This, Candidate) = "left"


\* the face the running tick's collision query reports, "none" for no hit
HitFaceOfTick == CheckBasketballCollision(This, Candidate)

\* the velocity the collision response leaves, before the ground block
ResponseVelocity == BounceVelocity(GravityVelocity, HitFaceOfTick)

\* C16: after the response to a face hit the velocity component on the hit
\* axis has the forced sign, whatever its sign before: top y <= 0, bottom
\* y >= 0, left x >= 0, right x <= 0, front z <= 0, back z >= 0.
C16_ResponseForcesSign ==
  FreeTick =>
    /\ HitFaceOfTick = "top" => ResponseVelocity[2] <= 0
    /\ HitFaceOfTick = "bottom" => ResponseVelocity[2] >= 0
    /\ HitFaceOfTick = "left" => ResponseVelocity[1] >= 0
    /\ HitFaceOfTick = "right" => ResponseVelocity[1] <= 0
    /\ HitFaceOfTick = "front" => ResponseVelocity[3] <= 0
    /\ HitFaceOfTick = "back" => ResponseVelocity[3] >= 0

\* a ball moving upward whose contact is classified as top
C16_Witness ==
  FreeTick /\ HitFaceOfTick = "top" /\ GravityVelocity[2] > 0


\* position and velocity of the running tick after its collision step
PositionAfterCollision == IF HitFaceOfTick = "none" THEN Candidate ELSE ballPos
VelocityAfterCollision ==
  IF HitFaceOfTick = "none" THEN GravityVelocity ELSE ResponseVelocity

\* C17: a free-flight tick whose position after the collision step has
\* y <= groundY + radius ends with y = groundY + radius, the vertical velocity
\* negated and scaled by 0.7 if its magnitude exceeds 0.1 and zero otherwise,
\* and the x and z velocities scaled by 0.8; a tick without ground contact
\* applies none of these.
C17_GroundContact ==
  [][FreeTick =>
       LET p == PositionAfterCollision
           v == VelocityAfterCollision
       IN  IF p[2] <= groundY + basketballRadius
           THEN /\ ballPos' = <<p[1], groundY + basketballRadius, p[3]>>
                /\ ballVel'[2] = IF Abs(v[2]) > bounceThreshold
                                 THEN MulDiv(-v[2], bounceReduction, 1000) ELSE 0
                /\ ballVel'[1] = MulDiv(v[1], groundFriction, 1000)
                /\ ballVel'[3] = MulDiv(v[3], groundFriction, 1000)
           ELSE ballPos' = p /\ ballVel' = v]_vars

\* the ball has just bounced off the ground: its vertical velocity points up
\* and friction has taken a fifth of its horizontal velocity
C17_Witness ==
  /\ pc = "frame" /\ ~hasBall /\ ballPos[2] = groundY + basketballRadius
  /\ ballVel[2] > bounceThreshold
  /\ ballVel[1] = MulDiv(100, groundFriction, 1000)
  /\ ballVel[3] = MulDiv(-100, groundFriction, 1000)

----------------------------------------------------------------------------
(* The ball left alone: no key is pressed and the court has not loaded, so  *)
(* no box is in the way.  The ball is dropped with zero velocity from a     *)
(* height drawn from a few; requestAnimationFrame keeps scheduling          *)
(* animate(), so each phase of a frame is taken once it is possible.        *)

\* heights (cm) the ball is dropped from; the first is its rest position
DropHeights == {-120, -100, -50, 0, 50, 100, 200}

InitDrop ==
  /\ loaded = {"avatar", "basketball"}
  /\ collisionBoxes = <<>>
  /\ currentAction = idle
  /\ clipTime = [c \in OnceClips |-> 0]
  /\ clipRunning = [c \in OnceClips |-> FALSE]
  /\ listeners = <<>>
  /\ currentState = idle
  /\ hasBall = FALSE
  /\ isCrouched = FALSE
  /\ isTransitioning = FALSE
  /\ isThrowingBall = FALSE
  /\ ballWasThrown = FALSE
  /\ avatarPos = AvatarStart
  /\ avatarYaw = 0
  /\ ballPos \in {<<BallRest[1], h, BallRest[3]>> : h \in DropHeights}
  /\ ballVel = Zero3
  /\ keys = {}
  /\ cameraAngle = 0
  /\ pc = "frame"
  /\ delta = 0
  /\ finished = <<>>
  /\ fired = <<>>
  /\ releases = 0

NextDrop ==
  \/ AnimateMixer
  \/ AnimateMovement
  \/ AnimatePhysics

SpecDrop ==
  /\ InitDrop /\ [][NextDrop]_vars
  /\ WF_vars(AnimateMixer) /\ WF_vars(AnimateMovement) /\ WF_vars(AnimatePhysics)

\* the ball lies on the ground with zero velocity
Settled ==
  HasBasketball(This) /\ ballPos[2] = groundY + basketballRadius /\ ballVel = Zero3

\* C18: a free ball dropped with zero horizontal velocity and no box in its
\* path eventually lies on the ground with zero velocity, and every later
\* tick ends in that same state.
C18_DroppedBallSettles == <>[]Settled


----------------------------------------------------------------------------
(* The character controller on its own: the court is loaded, the keys held  *)
(* when the first frame runs are drawn from the movement keys, keys are    *)
(* released one by one, and the character walks from a start position      *)
(* until it leaves the modelled region.                                    *)

\* positions the character starts walking from: the avatar's start and a
\* spot one step away from the hall's wall at z = -1.5
WalkStarts == {AvatarStart, <<120, -150, -140>>}

\* camera orbit angles, in quarter turns
CameraAngles == 0..3

InitWalk ==
  /\ loaded = {"avatar", "basketball", "court"}
  /\ collisionBoxes = CourtBoxes
  /\ clipRunning = [c \in OnceClips |-> FALSE]
  /\ isTransitioning = FALSE
  /\ isThrowingBall = FALSE
  /\ ballWasThrown = FALSE
  /\ avatarPos \in WalkStarts
  /\ avatarYaw = 0
  /\ ballVel = Zero3
  /\ keys \in SUBSET ReadKeys
  /\ cameraAngle \in CameraAngles
  /\ pc = "frame"
  /\ delta = 0
  /\ finished = <<>>
  /\ fired = <<>>
  /\ releases = 0
  /\ hasBall \in BOOLEAN
  /\ IF hasBall
     THEN \* the first pickup has completed here and the ball is in the hand
          /\ currentAction = holdingball /\ currentState = holdingball
          /\ isCrouched = TRUE
          /\ clipTime = [c \in OnceClips |->
                           IF c = standingtocrouched THEN ClipDuration(c) ELSE 0]
          /\ listeners = <<"onCrouchFinished">>
          /\ ballPos = Add3(avatarPos, ApplyYaw(RestHandOffset, avatarYaw))
     ELSE /\ currentAction = idle /\ currentState = idle
          /\ isCrouched = FALSE
          /\ clipTime = [c \in OnceClips |-> 0]
          /\ listeners = <<>>
          /\ ballPos = BallRest

NextWalk ==
  \/ AnimateMixer
  \/ AnimateMovement
  \/ AnimatePhysics
  \/ KeyUp

SpecWalk == InitWalk /\ [][NextWalk]_vars


\* a character tick that is not locked out is about to run
CharacterTick == pc = "move" /\ HasAvatar(This) /\ ~isTransitioning

\* C21: a character tick that runs with isTransitioning false and hasBall
\* true ends with holding-ball as the selected animation state and the
\* playing clip, whatever movement and sprint keys are held.
C21_HoldingBallSelected ==
  [][(CharacterTick /\ hasBall) =>
       (currentState' = holdingball /\ currentAction' = holdingball)]_vars

\* the character has just sprinted a step backward and sideways with the
\* ball in its hand
C21_Witness ==
  /\ pc = "ball" /\ hasBall /\ ~isTransitioning /\ currentState = holdingball
  /\ {"s", "d", "shift"} \subseteq keys /\ "z" \notin keys /\ "q" \notin keys
  /\ avatarPos \notin WalkStarts

\* the summed direction of the held keys, in camera axes: <<right, forward>>
SummedDirection == <<Held(This, "d") - Held(This, "q"), Held(This, "z") - Held(This, "s")>>

\* C22: a character tick that runs with isTransitioning false and hasBall
\* false selects idle for a zero summed direction; otherwise run whenever
\* sprint is held, walk-backward for pure-backward input without sprint and
\* walk-forward for the other nonzero directions without sprint.
C22_SelectionByDirectionAndSprint ==
  [][(CharacterTick /\ ~hasBall) =>
       currentState' =
         IF SummedDirection = <<0, 0>> THEN idle
         ELSE IF "shift" \in keys THEN running
         ELSE IF SummedDirection = <<0, -1>> THEN backward
         ELSE forward]_vars

\* the candidate position of the running character tick
WalkCandidate ==
  LET dir == MoveDir(This)
      unit == IF dir[1] # 0 /\ dir[2] # 0 THEN 707 ELSE 1000
      speed == IF "shift" \in keys THEN sprintSpeed ELSE moveSpeed
  IN  << avatarPos[1] + MulDiv(dir[1] * unit * speed, delta, 1000000),
         avatarPos[2],
         avatarPos[3] + MulDiv(dir[2] * unit * speed, delta, 1000000) >>

\* the character sphere at position p touches the surface of some box
CharacterHit(p) ==
  \E i \in 1..Len(collisionBoxes) :
    LET b == collisionBoxes[i]
        c == <<p[1], p[2] + 50, p[3]>>
    IN  /\ \A a \in 1..3 : b.min[a] - characterRadius <= c[a]
                           /\ c[a] <= b.max[a] + characterRadius
        /\ \E a \in 1..3 : c[a] < b.min[a] \/ c[a] > b.max[a]

\* C24: in a character tick with isTransitioning false and a nonzero movement
\* direction, a hit at the candidate position (raised by 0.5, radius 0.2)
\* leaves the position unchanged and still sets the yaw to the movement
\* direction; without a hit the position becomes the candidate.  With no
\* direction key held, or opposite keys cancelling, position and yaw are
\* unchanged, also when sprint is held.
C24_BlockedStepStillTurns ==
  [][CharacterTick =>
       IF SummedDirection # <<0, 0>>
       THEN /\ avatarYaw' = Atan2Yaw(MoveDir(This)[1], MoveDir(This)[2])
            /\ avatarPos' = IF CharacterHit(WalkCandidate) THEN avatarPos
                            ELSE WalkCandidate
       ELSE avatarPos' = avatarPos /\ avatarYaw' = avatarYaw]_vars

\* the character stands where it started, one step from the wall, and has
\* been turned to face the wall by a blocked step
C24_Witness ==
  /\ pc = "ball" /\ avatarPos = <<120, -150, -140>> /\ avatarYaw = 4
  /\ keys = {"z"} /\ cameraAngle = 0 /\ ~isTransitioning
  /\ CharacterHit(WalkCandidate)


----------------------------------------------------------------------------
(* playAnimation as an operation of its own: besides the calls the         *)
(* component makes, a play request for the clip that is playing.           *)

\* playAnimation(state) requested for the state of the current action
PlayAgain ==
  /\ pc = "frame" /\ currentAction # "none"
  /\ Len(listeners) < MaxListeners
  /\ Commit(PlayAnimation(This, currentAction))
  /\ UNCHANGED <<pc, delta>>

NextPlay ==
  \/ AnimateMixer
  \/ AnimateMovement
  \/ AnimatePhysics
  \/ KeyDown
  \/ LoadAvatar
  \/ LoadBasketball
  \/ PlayAgain

SpecPlay == Init /\ [][NextPlay]_vars

\* a play request for the playing clip, as a step
PlayRequestForCurrent ==
  /\ pc = "frame" /\ currentAction # "none"
  /\ Commit(PlayAnimation(This, currentAction))
  /\ UNCHANGED <<pc, delta>>

HandlerOf(c) == IF c = standingtocrouched THEN "onCrouchFinished" ELSE "onThrowFinished"

\* clip c reaches its end in the animation advance of this step
ReachesEnd(c) ==
  /\ pc = "frame" /\ pc' = "move" /\ HasAvatar(This)
  /\ clipRunning[c] /\ clipTime[c] + delta' >= ClipDuration(c)

\* the flags the completion handler of clip c leaves
HandlerFlags(c) ==
  IF c = standingtocrouched
  THEN isCrouched /\ hasBall /\ ~isTransitioning /\ ~ballWasThrown
  ELSE ~isCrouched /\ ~isTransitioning /\ ~isThrowingBall /\ ~hasBall

\* C25: every tick runs animation advance, then character movement, then
\* ball physics; a play-once completion is delivered inside the animation
\* advance of the tick in which the clip reaches its end, its handler's flag
\* changes are in effect when the character phase and the ball phase of that
\* tick start, and outside the animation advance no handler runs and the
\* input lock is never lifted.
C25_CompletionInsideAdvance ==
  [][/\ pc = "frame" => pc' \in {"frame", "move"}
     /\ pc = "move" => pc' = "ball"
     /\ pc = "ball" => pc' = "frame"
     /\ \A c \in OnceClips :
          /\ ReachesEnd(c) =>
               /\ Finished(c)' /\ fired' # <<>>
               /\ fired'[Len(fired')] = HandlerOf(c)
               /\ HandlerFlags(c)'
          /\ (pc = "frame" /\ pc' = "move" /\ Finished(c)') => ReachesEnd(c)
          /\ (pc = "move" /\ Finished(c)) =>
               (HandlerFlags(c) /\ HandlerFlags(c)'
                /\ currentState' = HandleMovementNoLock(This, delta).currentState
                /\ avatarPos' = HandleMovementNoLock(This, delta).avatarPos)
          /\ (pc = "ball" /\ Finished(c)) => HandlerFlags(c)
     /\ (pc = "frame" /\ pc' = "move" /\ fired' # <<>>) =>
          \E c \in OnceClips : ReachesEnd(c)
     /\ (pc # "frame" \/ pc' # "move") =>
          (fired' = fired /\ finished' = finished
           /\ (isTransitioning => isTransitioning'))]_vars

\* the character phase of the tick in which a throw completed has already
\* moved the sprinting character
C25_Witness ==
  /\ pc = "ball" /\ Finished(throwball) /\ currentState = running
  /\ ~isTransitioning /\ ~hasBall
  /\ fired = <<"onCrouchFinished", "onThrowFinished">>


----------------------------------------------------------------------------
(* The input lock over time: the character stands within reach of the ball *)
(* and only the pickup and throw keys are pressed.  requestAnimationFrame   *)
(* keeps scheduling animate(), so each phase of a frame is taken once it is *)
(* possible.                                                                *)

\* where the character stands: it has walked along x to within pickup range
LockStand == <<160, -150, 0>>

\* the keys of the two abilities
AbilityKeys == {"e", "r"}

InitLock ==
  /\ loaded = {"avatar", "court"}
  /\ collisionBoxes = CourtBoxes
  /\ currentAction = idle
  /\ clipTime = [c \in OnceClips |-> 0]
  /\ clipRunning = [c \in OnceClips |-> FALSE]
  /\ listeners = <<>>
  /\ currentState = idle
  /\ hasBall = FALSE
  /\ isCrouched = FALSE
  /\ isTransitioning = FALSE
  /\ isThrowingBall = FALSE
  /\ ballWasThrown = FALSE
  /\ avatarPos = LockStand
  /\ avatarYaw \in {2, 6}
  /\ ballPos = BallRest
  /\ ballVel = Zero3
  /\ keys = {}
  /\ cameraAngle = 0
  /\ pc = "frame"
  /\ delta = 0
  /\ finished = <<>>
  /\ fired = <<>>
  /\ releases = 0

\* a keydown event of a pickup or throw key between two frames
AbilityKeyDown ==
  /\ pc = "frame"
  /\ Len(listeners) < MaxListeners
  /\ \E key \in AbilityKeys : Commit(OnKeyDown(This, key))
  /\ UNCHANGED <<pc, delta>>

NextLock ==
  \/ AnimateMixer
  \/ AnimateMovement
  \/ AnimatePhysics
  \/ AbilityKeyDown
  \/ LoadBasketball

\* animate() moves on to its next phase; only the three phases of a frame
\* change pc, and here the first of them is possible whenever pc = "frame"
\* (the character never leaves LockStand)
PhaseAdvance ==
  pc' = CASE pc = "frame" -> "move" [] pc = "move" -> "ball" [] OTHER -> "frame"

SpecLock == InitLock /\ [][NextLock]_vars /\ WF_pc(PhaseAdvance)

\* C26: input lockout is bounded.  While isTransitioning is set a play-once
\* clip is running short of its duration and every tick adds its delta to the
\* clip's time; the tick in which the accumulated delta reaches the duration
\* clears isTransitioning; and with ticks that keep arriving isTransitioning
\* always becomes false again, for crouch-down and for throw.
C26_LockoutBounded ==
  /\ [](isTransitioning =>
          /\ currentAction \in OnceClips /\ clipRunning[currentAction]
          /\ clipTime[currentAction] < ClipDuration(currentAction))
  /\ [][(pc = "frame" /\ pc' = "move" /\ isTransitioning) =>
          IF clipTime[currentAction] + delta' >= ClipDuration(currentAction)
          THEN ~isTransitioning'
          ELSE /\ isTransitioning' /\ currentAction' = currentAction
               /\ clipTime'[currentAction] = clipTime[currentAction] + delta']_vars
  /\ (isTransitioning ~> ~isTransitioning)

\* a long frame has just completed a throw clip and lifted the lock
C26_Witness ==
  /\ pc = "move" /\ Finished(throwball) /\ ~isTransitioning
  /\ delta = 500 /\ clipTime[throwball] = ClipDuration(throwball)


\* the simulation state: everything but the position inside animate()
SimVars ==
  <<loaded, collisionBoxes, currentAction, clipTime, clipRunning, listeners,
    currentState, hasBall, isCrouched, isTransitioning, isThrowingBall,
    ballWasThrown, avatarPos, avatarYaw, ballPos, ballVel, keys, cameraAngle,
    finished, fired, releases>>

\* C27: collaborators that are not loaded yet are tolerated: a ball-physics
\* tick with no ball, a character tick with no character, an animation
\* advance with no mixer and a pickup key event with ball or character
\* missing leave the simulation state unchanged, and so does a play request
\* for any clip while the clips are not loaded.
C27_NotLoadedIsNoOp ==
  /\ [][/\ (pc = "ball" /\ ~HasBasketball(This)) => UNCHANGED SimVars
        /\ (pc = "move" /\ ~HasAvatar(This)) => UNCHANGED SimVars
        /\ (pc = "frame" /\ pc' = "move" /\ ~HasAvatar(This)) => UNCHANGED SimVars
        /\ (pc = "frame" /\ KeyDownOf("e")
              /\ (~HasAvatar(This) \/ ~HasBasketball(This))) =>
             UNCHANGED SimVars]_vars
  /\ [](~HasAvatar(This) =>
          \A state \in AnimationStates : PlayAnimation(This, state) = This)

\* the ball, loaded before the character, has fallen to the ground through
\* frames that ran with movement keys held and no character
C27_Witness ==
  /\ pc = "ball" /\ loaded = {"basketball"} /\ {"d", "shift"} \subseteq keys
  /\ ballPos[2] = groundY + basketballRadius /\ avatarPos = AvatarStart


\* the axis of a face: 1 for left/right, 2 for bottom/top, 3 for back/front
AxisOf(face) ==
  CASE face \in {"left", "right"} -> 1
    [] face \in {"bottom", "top"} -> 2
    [] OTHER -> 3

\* C28: in a free-flight tick with a face hit the position is not advanced
\* along the blocked axis; the response leaves the velocity component on
\* that axis with 0.8 * 0.9 = 0.72 times its magnitude after gravity (up to
\* the truncation of the two products) and multiplies the two other
\* components by 0.9; a tick without ground contact ends with that velocity,
\* and no component ends larger in magnitude than it was after gravity.
C28_ResponseScalesVelocity ==
  [][(FreeTick /\ HitFaceOfTick # "none") =>
       LET v == GravityVelocity
           r == ResponseVelocity
           a == AxisOf(HitFaceOfTick)
       IN  /\ ballPos'[a] = ballPos[a]
           /\ Abs(r[a]) = MulDiv(MulDiv(Abs(v[a]), bounceStrength, 1000), energyKeep, 1000)
           /\ 1000 * Abs(r[a]) <= 720 * Abs(v[a])
           /\ 1000 * Abs(r[a]) > 720 * Abs(v[a]) - 1900
           /\ \A i \in (1..3) \ {a} : r[i] = MulDiv(v[i], energyKeep, 1000)
           /\ ballPos[2] > groundY + basketballRadius => ballVel' = r
           /\ \A i \in 1..3 : Abs(ballVel'[i]) <= Abs(v[i])]_vars

\* a ball above the ground, moving on all three axes, is about to be blocked
\* by a front or back face
C28_Witness ==
  /\ FreeTick /\ HitFaceOfTick \in {"front", "back"}
  /\ \A i \in 1..3 : Abs(GravityVelocity[i]) >= 100
  /\ ballPos[2] > groundY + basketballRadius


\* the box whose hit the running tick's collision query reports
HitBoxOfTick ==
  collisionBoxes[CHOOSE i \in 1..Len(collisionBoxes) :
                   /\ BoxReports(collisionBoxes[i], Candidate)
                   /\ \A j \in 1..(i - 1) : ~BoxReports(collisionBoxes[j], Candidate)]

\* C29: after the response to a face hit the velocity component on the hit
\* axis points away from the center of the box on that axis: it is <= 0 for
\* a ball on the low side of the center and >= 0 for a ball on the high side.
C29_ResponsePointsOutward ==
  (FreeTick /\ HitFaceOfTick # "none") =>
    LET a == AxisOf(HitFaceOfTick)
        b == HitBoxOfTick
    IN  IF 2 * Candidate[a] < b.min[a] + b.max[a]
        THEN ResponseVelocity[a] <= 0
        ELSE ResponseVelocity[a] >= 0


\* the first of the two safety resets is about to be taken
FellThroughWorld ==
  pc = "ball" /\ HasBasketball(This) /\ ~hasBall /\ ballPos[2] < -1000

\* C30: once loaded, the ball is never below groundY + radius, held or free,
\* so the fell-below-ground branch of the safety reset (y < -10) is never
\* taken.
C30_BallNeverBelowGround ==
  /\ HasBasketball(This) => ballPos[2] >= groundY + basketballRadius
  /\ ~FellThroughWorld

\* a thrown ball has come down and has just been clamped to the ground and
\* bounced
C30_Witness ==
  /\ pc = "frame" /\ ~hasBall /\ releases = 1 /\ ballWasThrown
  /\ ballPos[2] = groundY + basketballRadius /\ ballVel[2] > 100


\* the ground block is applied in the running tick
GroundContactApplied == PositionAfterCollision[2] <= groundY + basketballRadius

\* C31: a free-flight tick in which ground contact is applied ends with a
\* vertical velocity >= 0, also when a box face hit blocked the position
\* update of a ball resting at y = groundY + radius with upward velocity.
C31_GroundContactNeverDownward ==
  [][(FreeTick /\ GroundContactApplied) => ballVel'[2] >= 0]_vars


\* C32: a free-flight tick with a face hit leaves the ball's position
\* unchanged on all three axes: the whole candidate step is discarded before
\* ground handling, and the ground block, which only clamps y to
\* groundY + radius, does not move a ball that is never below that height.
C32_HitDiscardsWholeStep ==
  [][(FreeTick /\ HitFaceOfTick # "none") =>
       /\ ballPos' = ballPos
       /\ FreeFlight(This, delta).ballPos = ballPos]_vars

\* a ball whose candidate differs from its position on all three axes is
\* about to be blocked on one of them
C32_Witness ==
  /\ FreeTick /\ HitFaceOfTick # "none"
  /\ \A i \in 1..3 : Candidate[i] # ballPos[i]
  /\ ballPos[2] > groundY + basketballRadius

====
